---- MODULE Spec2Model ----
(***************************************************************************)
(* A model of the Optional container, of the Guard validator, of the      *)
(* exception hierarchy and of the UUID value type of domaincrafters/std.   *)
(*                                                                         *)
(* JavaScript values are records [t, n, s, ref]: t is the runtime type     *)
(* tag, n the numeric payload, s the string payload and ref the identity   *)
(* of an object.  Optionals live on a heap: heap[o] is the private field   *)
(* _value of the Optional with reference o.  Every operation of the class  *)
(* is an operator computing an outcome (returned value or reference,       *)
(* raised error, callback invocations, new heap) and an action that        *)
(* applies it and records the outcome in res.  Guards live in guards, the  *)
(* last Guard call and its outcome in gres, and lastIndex is the lastIndex *)
(* property of every RegExp object the callers hold.  UUIDs live in uuids  *)
(* (uuids[u] is the private field _value), the last UUID call and its      *)
(* outcome in ures.  exc is the exception a catch site caught last, and    *)
(* chain is one chained validation, Guard.check(...).c1(...)...cn(...),    *)
(* with the checks evaluated so far.  script is one run of the            *)
(* version-update script: its position, its locals, the files deno.json    *)
(* and GITHUB_OUTPUT and the console.                                      *)
(***************************************************************************)
EXTENDS Integers, Sequences, FiniteSets, TLC

VARIABLES heap, res, guards, gres, lastIndex, uuids, ures, exc, chain, script

optionalVars == <<heap, res>>

guardVars == <<guards, gres, lastIndex>>

uuidVars == <<uuids, ures>>

vars == <<heap, res, guards, gres, lastIndex, uuids, ures, exc, chain, script>>

\* The number of Optional instances a run may construct.
MaxObjects == 3

\* The number of UUID instances a run may hold, UUID.EMPTY included.
MaxUuids == 3

\* The number of checks in a chained validation.
MaxChain == 3

-----------------------------------------------------------------------------
\* JavaScript values

Undefined == [t |-> "undefined", n |-> 0, s |-> "", ref |-> 0]

Null == [t |-> "null", n |-> 0, s |-> "", ref |-> 0]

NaN == [t |-> "nan", n |-> 0, s |-> "", ref |-> 0]

Num(k) == [t |-> "number", n |-> k, s |-> "", ref |-> 0]

Str(x) == [t |-> "string", n |-> 0, s |-> x, ref |-> 0]

Bool(b) == [t |-> "boolean", n |-> IF b THEN 1 ELSE 0, s |-> "", ref |-> 0]

Obj(r) == [t |-> "object", n |-> 0, s |-> "", ref |-> r]

\* Two distinct objects with the same contents, { a: 1 }.
ObjRefs == {1, 2}

ObjFields == [r \in ObjRefs |-> [a |-> 1]]

\* The values the callers pass in.
Values == {Undefined, Null, NaN, Num(0), Num(5), Str("hello"), Obj(1), Obj(2)}

\* The default values the callers pass to getOrElse.
Defaults == {Undefined, Null, Num(20)}

\* x === undefined || x === null
IsNullish(x) == x.t \in {"undefined", "null"}

\* x === y
StrictEquals(x, y) ==
    IF x.t = "nan" \/ y.t = "nan" THEN FALSE
    ELSE IF x.t # y.t THEN FALSE
    ELSE IF x.t = "object" THEN x.ref = y.ref
    ELSE IF x.t = "string" THEN x.s = y.s
    ELSE x.n = y.n

\* Number(x), as the arithmetic and relational operators convert an operand.
ToNumber(x) ==
    CASE x.t = "number" -> x
      [] x.t = "boolean" -> Num(x.n)
      [] x.t = "null" -> Num(0)
      [] x.t = "string" /\ x.s = "" -> Num(0)
      [] OTHER -> NaN

\* String(x), as a template literal converts a value.
ToStr(x) ==
    CASE x.t = "number" -> ToString(x.n)
      [] x.t = "string" -> x.s
      [] x.t = "boolean" -> IF x.n = 1 THEN "true" ELSE "false"
      [] x.t = "nan" -> "NaN"
      [] x.t = "null" -> "null"
      [] x.t = "undefined" -> "undefined"
      [] OTHER -> "[object Object]"

\* s.includes(t)
Contains(s, t) ==
    \E i \in 1..(Len(s) - Len(t) + 1) : SubSeq(s, i, i + Len(t) - 1) = t

-----------------------------------------------------------------------------
\* Errors

NoError == [type |-> "", message |-> ""]

MkError(ty, msg) == [type |-> ty, message |-> msg]

-----------------------------------------------------------------------------
\* Outcomes of an operation: the heap after it, what it returned or raised,
\* and the arguments of every callback invocation it made, in order.

Return(h, v, args) ==
    [kind |-> "return", heap |-> h, val |-> v, ref |-> 0, err |-> NoError, callArgs |-> args]

ReturnRef(h, o, args) ==
    [kind |-> "return", heap |-> h, val |-> Undefined, ref |-> o, err |-> NoError, callArgs |-> args]

Throw(h, e, args) ==
    [kind |-> "throw", heap |-> h, val |-> Undefined, ref |-> 0, err |-> e, callArgs |-> args]

-----------------------------------------------------------------------------
\* The callbacks the callers pass in.

\* x => x * 2, _ => null, _ => undefined, x => x
Mappers == {"double", "toNull", "toUndefined", "identity"}

Double(x) == IF ToNumber(x).t = "nan" THEN NaN ELSE Num(ToNumber(x).n * 2)

MapperResult(fn, x) ==
    CASE fn = "double" -> Double(x)
      [] fn = "toNull" -> Null
      [] fn = "toUndefined" -> Undefined
      [] OTHER -> x

\* x => Optional.of(x * 2), _ => Optional.empty(), _ => null, _ => undefined,
\* _ => first (an Optional created earlier and captured by the callback)
FlatMappers == {"ofDouble", "toEmpty", "toNull", "toUndefined", "captured"}

\* x => x > 3, _ => true
Predicates == {"gt3", "always"}

PredicateResult(p, x) ==
    IF p = "gt3" THEN (ToNumber(x).t = "number" /\ ToNumber(x).n > 3) ELSE TRUE

\* () => new Error("No value"), () => new NotFoundException("User not found.")
Suppliers == {"noValue", "notFound"}

SupplierResult(s) ==
    IF s = "noValue" THEN MkError("Error", "No value")
    ELSE MkError("NotFoundException", "User not found.")

Messages == {"Value not found", "Could not find this value."}

-----------------------------------------------------------------------------
\* class Optional<T>: heap[o] is this._value of the Optional o.

\* new Optional(value): a fresh Optional, its reference is Len(h) + 1.
Optional(h, v) == Append(h, v)

\* A variant of Optional.of that forgets the null half of its check.
of_undefinedOnly(h, v) ==
    IF v.t = "undefined"
    THEN Throw(h, MkError("Error", "Cannot create Optional.of with undefined or null"), <<>>)
    ELSE ReturnRef(Optional(h, v), Len(h) + 1, <<>>)

\* Optional.of(value)
of(h, v) ==
    IF v.t = "undefined" \/ v.t = "null"
    THEN Throw(h, MkError("Error", "Cannot create Optional.of with undefined or null"), <<>>)
    ELSE ReturnRef(Optional(h, v), Len(h) + 1, <<>>)

\* Optional.ofNullable(value)
ofNullable(h, v) == ReturnRef(Optional(h, v), Len(h) + 1, <<>>)

\* Optional.empty()
empty(h) == ReturnRef(Optional(h, Undefined), Len(h) + 1, <<>>)

\* get value()
value(h, o) ==
    IF h[o].t = "undefined"
    THEN Throw(h, MkError("Error", "Value is not present"), <<>>)
    ELSE Return(h, h[o], <<>>)

\* get isPresent()
isPresent(h, o) == h[o].t # "undefined"

\* getOrElse(defaultValue): this._value ?? defaultValue
getOrElse(h, o, d) ==
    Return(h, IF IsNullish(h[o]) THEN d ELSE h[o], <<>>)

\* A variant of map that wraps whatever the mapper returned.
map_wrapAny(h, o, fn) ==
    IF h[o].t = "undefined"
    THEN empty(h)
    ELSE [ofNullable(h, MapperResult(fn, h[o])) EXCEPT !.callArgs = <<h[o]>>]

\* map(mapper)
map(h, o, fn) ==
    IF h[o].t = "undefined"
    THEN empty(h)
    ELSE LET result == MapperResult(fn, h[o])
             r == IF result.t = "undefined" \/ result.t = "null"
                  THEN empty(h)
                  ELSE of(h, result)
         IN  [r EXCEPT !.callArgs = <<h[o]>>]

\* What a flatMap callback returns: the heap after it ran, and the reference
\* of the Optional it returned (0 for null and for undefined).
FlatMapperResult(h, fn, x) ==
    CASE fn = "ofDouble" -> [heap |-> of(h, Double(x)).heap, ref |-> of(h, Double(x)).ref]
      [] fn = "toEmpty" -> [heap |-> empty(h).heap, ref |-> empty(h).ref]
      [] fn = "captured" -> [heap |-> h, ref |-> 1]
      [] OTHER -> [heap |-> h, ref |-> 0]

\* A variant of flatMap that wraps the payload of the mapper's Optional anew.
flatMap_rewrap(h, o, fn) ==
    IF h[o].t = "undefined"
    THEN empty(h)
    ELSE LET result == FlatMapperResult(h, fn, h[o])
             r == IF result.ref = 0
                  THEN empty(result.heap)
                  ELSE ofNullable(result.heap, result.heap[result.ref])
         IN  [r EXCEPT !.callArgs = <<h[o]>>]

\* flatMap(mapper): result ?? Optional.empty()
flatMap(h, o, fn) ==
    IF h[o].t = "undefined"
    THEN empty(h)
    ELSE LET result == FlatMapperResult(h, fn, h[o])
             r == IF result.ref = 0
                  THEN empty(result.heap)
                  ELSE ReturnRef(result.heap, result.ref, <<>>)
         IN  [r EXCEPT !.callArgs = <<h[o]>>]

\* A variant of filter that empties the receiver in place when the predicate fails.
filter_clearReceiver(h, o, p) ==
    IF h[o].t = "undefined"
    THEN ReturnRef(h, o, <<>>)
    ELSE LET r == IF PredicateResult(p, h[o])
                  THEN ReturnRef(h, o, <<>>)
                  ELSE ReturnRef([h EXCEPT ![o] = Undefined], o, <<>>)
         IN  [r EXCEPT !.callArgs = <<h[o]>>]

\* A variant of filter that answers an absent receiver with a new empty Optional.
filter_freshEmpty(h, o, p) ==
    IF h[o].t = "undefined"
    THEN empty(h)
    ELSE LET r == IF PredicateResult(p, h[o]) THEN ReturnRef(h, o, <<>>) ELSE empty(h)
         IN  [r EXCEPT !.callArgs = <<h[o]>>]

\* filter(predicate)
filter(h, o, p) ==
    IF h[o].t = "undefined"
    THEN ReturnRef(h, o, <<>>)
    ELSE LET r == IF PredicateResult(p, h[o]) THEN ReturnRef(h, o, <<>>) ELSE empty(h)
         IN  [r EXCEPT !.callArgs = <<h[o]>>]

\* ifPresent(consumer)
ifPresent(h, o) ==
    IF h[o].t # "undefined"
    THEN Return(h, Undefined, <<h[o]>>)
    ELSE Return(h, Undefined, <<>>)

\* A variant of orElseThrow that raises the accessor's error, not the supplier's.
orElseThrow_ownError(h, o, s) ==
    IF h[o].t # "undefined"
    THEN Return(h, h[o], <<>>)
    ELSE Throw(h, MkError("Error", "Value is not present"), <<Undefined>>)

\* orElseThrow(errorSupplier); the supplier is called without arguments.
orElseThrow(h, o, s) ==
    IF h[o].t # "undefined"
    THEN Return(h, h[o], <<>>)
    ELSE Throw(h, SupplierResult(s), <<Undefined>>)

\* A variant of equals that compares objects by their contents.
equals_deep(h, o, other) ==
    IF h[o].t = "object" /\ h[other].t = "object"
    THEN Return(h, Bool(ObjFields[h[o].ref] = ObjFields[h[other].ref]), <<>>)
    ELSE Return(h, Bool(StrictEquals(h[o], h[other])), <<>>)

\* equals(other)
equals(h, o, other) ==
    IF StrictEquals(h[o], h[other])
    THEN Return(h, Bool(TRUE), <<>>)
    ELSE Return(h, Bool(FALSE), <<>>)

\* toString()
toString(h, o) ==
    Return(h, IF h[o].t # "undefined"
              THEN Str("Optional(" \o ToStr(h[o]) \o ")")
              ELSE Str("Optional.empty"), <<>>)

\* A variant of getOrThrow that raises a plain Error.
getOrThrow_plainError(h, o, msg) ==
    IF isPresent(h, o)
    THEN Return(h, h[o], <<>>)
    ELSE Throw(h, MkError("Error", msg), <<>>)

\* getOrThrow(message)
getOrThrow(h, o, msg) ==
    IF isPresent(h, o)
    THEN Return(h, h[o], <<>>)
    ELSE Throw(h, MkError("NotFoundException", msg), <<>>)

-----------------------------------------------------------------------------
\* The state machine: a caller constructs Optionals and invokes operations
\* on them; res records the last call and its outcome.

Refs == 1..Len(heap)

Call(op, recv, argVal, argStr, argRef, out) ==
    /\ heap' = out.heap
    /\ res' = [op |-> op, recv |-> recv, argVal |-> argVal, argStr |-> argStr,
               argRef |-> argRef, kind |-> out.kind, val |-> out.val,
               ref |-> out.ref, err |-> out.err, callArgs |-> out.callArgs,
               allocs |-> Len(out.heap) - Len(heap)]
    /\ UNCHANGED <<guardVars, uuidVars, exc, chain, script>>

InitOptional ==
    /\ heap = <<>>
    /\ res = [op |-> "init", recv |-> 0, argVal |-> Undefined, argStr |-> "",
              argRef |-> 0, kind |-> "return", val |-> Undefined, ref |-> 0,
              err |-> NoError, callArgs |-> <<>>, allocs |-> 0]

\* The RegExp objects the callers hold: /^[a-z]+\d+$/ and /\d+/g.
Regexes == {"lowerDigits", "digitsGlobal"}

InitGuard ==
    /\ guards = <<>>
    /\ gres = [op |-> "init", recv |-> 0, argVal |-> Undefined, argName |-> Undefined,
               argType |-> "", argMsg |-> Undefined, argMin |-> Undefined,
               argMax |-> Undefined, argStr |-> "", kind |-> "return", ref |-> 0,
               err |-> NoError, allocs |-> 0]
    /\ lastIndex = [r \in Regexes |-> 0]

\* public static readonly EMPTY: UUID = new UUID('00000000-0000-0000-0000-000000000000')
EMPTY == 1

InitUuid ==
    /\ uuids = <<"00000000-0000-0000-0000-000000000000">>
    /\ ures = [op |-> "init", recv |-> 0, argStr |-> "", argRef |-> 0, kind |-> "return",
               val |-> Undefined, ref |-> 0, err |-> NoError, allocs |-> 0]

InitException == exc = NoError

InitChain == chain = [guards |-> <<>>, calls |-> <<>>, lastIndex |-> [r \in Regexes |-> 0]]

\* No response received yet.
NoResponse == [failed |-> FALSE, ok |-> FALSE, statusText |-> "", url |-> ""]

\* A file that does not exist.
NoFile == [exists |-> FALSE, text |-> ""]

InitScript ==
    script = [pc |-> "idle", response |-> NoResponse, denoJson |-> NoFile,
              original |-> NoFile, GITHUB_OUTPUT |-> FALSE, output |-> <<>>,
              console |-> <<>>, new_version |-> "", old_version |-> "", writes |-> 0]

Init == InitOptional /\ InitGuard /\ InitUuid /\ InitException /\ InitChain /\ InitScript

Of ==
    /\ Len(heap) < MaxObjects
    /\ \E v \in Values : Call("of", 0, v, "", 0, of(heap, v))

OfNullable ==
    /\ Len(heap) < MaxObjects
    /\ \E v \in Values : Call("ofNullable", 0, v, "", 0, ofNullable(heap, v))

Empty ==
    /\ Len(heap) < MaxObjects
    /\ Call("empty", 0, Undefined, "", 0, empty(heap))

GetValue ==
    \E o \in Refs : Call("value", o, Undefined, "", 0, value(heap, o))

GetIsPresent ==
    \E o \in Refs :
        Call("isPresent", o, Undefined, "", 0, Return(heap, Bool(isPresent(heap, o)), <<>>))

GetOrElse ==
    \E o \in Refs, d \in Defaults : Call("getOrElse", o, d, "", 0, getOrElse(heap, o, d))

Map ==
    /\ Len(heap) < MaxObjects
    /\ \E o \in Refs, fn \in Mappers : Call("map", o, Undefined, fn, 0, map(heap, o, fn))

FlatMap ==
    /\ Len(heap) < MaxObjects
    /\ \E o \in Refs, fn \in FlatMappers :
           Call("flatMap", o, Undefined, fn, 0, flatMap(heap, o, fn))

Filter ==
    /\ Len(heap) < MaxObjects
    /\ \E o \in Refs, p \in Predicates : Call("filter", o, Undefined, p, 0, filter(heap, o, p))

IfPresent ==
    \E o \in Refs : Call("ifPresent", o, Undefined, "", 0, ifPresent(heap, o))

OrElseThrow ==
    \E o \in Refs, s \in Suppliers :
        Call("orElseThrow", o, Undefined, s, 0, orElseThrow(heap, o, s))

GetOrThrow ==
    \E o \in Refs, msg \in Messages :
        Call("getOrThrow", o, Undefined, msg, 0, getOrThrow(heap, o, msg))

Equals ==
    \E o \in Refs, other \in Refs :
        Call("equals", o, Undefined, "", other, equals(heap, o, other))

ToStringOp ==
    \E o \in Refs : Call("toString", o, Undefined, "", 0, toString(heap, o))

Next ==
    \/ Of
    \/ OfNullable
    \/ Empty
    \/ GetValue
    \/ GetIsPresent
    \/ GetOrElse
    \/ Map
    \/ FlatMap
    \/ Filter
    \/ IfPresent
    \/ OrElseThrow
    \/ GetOrThrow
    \/ Equals
    \/ ToStringOp

Spec == Init /\ [][Next]_vars

-----------------------------------------------------------------------------
\* Properties of Optional

\* C1: Optional.of(v) returns, for every v that is neither null nor
\* undefined, an Optional whose isPresent is true and whose value accessor
\* returns v; for null and for undefined it throws the Error 'Cannot create
\* Optional.of with undefined or null' and creates no Optional.
C1_OfContract ==
    res.op = "of" =>
        IF res.argVal = Null \/ res.argVal = Undefined
        THEN /\ res.kind = "throw"
             /\ res.err = MkError("Error", "Cannot create Optional.of with undefined or null")
             /\ res.ref = 0
             /\ res.allocs = 0
        ELSE /\ res.kind = "return"
             /\ res.ref \in Refs
             /\ isPresent(heap, res.ref)
             /\ value(heap, res.ref).kind = "return"
             /\ value(heap, res.ref).val = res.argVal

C1_Witness_OfNullThrows ==
    res.op = "of" /\ res.argVal = Null /\ res.kind = "throw"

\* C2: Optional.ofNullable(x) never throws; its result has isPresent false
\* when x is null and when x is undefined, and true for every other x.
C2_OfNullableContract ==
    res.op = "ofNullable" =>
        /\ res.kind = "return"
        /\ res.ref \in Refs
        /\ isPresent(heap, res.ref) <=> ~(res.argVal = Null \/ res.argVal = Undefined)

\* C3: o.getOrElse(d) never throws, returns the held value when o.isPresent
\* is true and returns d when o.isPresent is false.
C3_GetOrElseContract ==
    res.op = "getOrElse" =>
        /\ res.kind = "return"
        /\ res.val = IF isPresent(heap, res.recv) THEN heap[res.recv] ELSE res.argVal

\* C4: the value accessor returns the held value of a present Optional and
\* throws an Error whose message contains 'Value not found.' on an empty one.
C4_ValueContract ==
    res.op = "value" =>
        IF isPresent(heap, res.recv)
        THEN res.kind = "return" /\ res.val = heap[res.recv]
        ELSE /\ res.kind = "throw"
             /\ res.err.type = "Error"
             /\ Contains(res.err.message, "Value not found.")

\* C5: o.map(fn) applies fn exactly once, to the held value, when o is
\* present, and gives an empty Optional if fn returned null or undefined and
\* otherwise a present Optional holding fn's result; when o is absent the
\* result is empty and fn is never invoked.
C5_MapContract ==
    res.op = "map" =>
        /\ res.kind = "return"
        /\ res.ref \in Refs
        /\ IF isPresent(heap, res.recv)
           THEN /\ res.callArgs = <<heap[res.recv]>>
                /\ LET result == MapperResult(res.argStr, heap[res.recv])
                   IN  IF result = Null \/ result = Undefined
                       THEN ~isPresent(heap, res.ref)
                       ELSE isPresent(heap, res.ref) /\ heap[res.ref] = result
           ELSE /\ res.callArgs = <<>>
                /\ ~isPresent(heap, res.ref)

C5_Witness_MapToNull ==
    /\ res.op = "map"
    /\ isPresent(heap, res.recv)
    /\ res.argStr = "toNull"
    /\ Len(res.callArgs) = 1
    /\ ~isPresent(heap, res.ref)

\* C6: o.flatMap(fn) returns, for a present o, the very Optional fn returned
\* (no other Optional is created around it), and an empty Optional when fn
\* returned null or undefined; for an absent o the result is empty and fn is
\* never invoked.
C6_FlatMapContract ==
    res.op = "flatMap" =>
        /\ res.kind = "return"
        /\ res.ref \in Refs
        /\ IF isPresent(heap, res.recv)
           THEN /\ res.callArgs = <<heap[res.recv]>>
                /\ CASE res.argStr = "captured" ->
                            res.ref = 1 /\ res.allocs = 0
                     [] res.argStr = "ofDouble" ->
                            /\ res.allocs = 1
                            /\ res.ref = Len(heap)
                            /\ heap[res.ref] = Double(heap[res.recv])
                     [] res.argStr = "toEmpty" ->
                            /\ res.allocs = 1
                            /\ res.ref = Len(heap)
                            /\ ~isPresent(heap, res.ref)
                     [] OTHER ->
                            ~isPresent(heap, res.ref)
           ELSE /\ res.callArgs = <<>>
                /\ ~isPresent(heap, res.ref)

C6_Witness_FlatMapSameOptional ==
    /\ res.op = "flatMap"
    /\ isPresent(heap, res.recv)
    /\ res.argStr = "captured"
    /\ res.recv # 1
    /\ res.ref = 1

\* C7: o.filter(p) is o itself when o is present and p(value) is true, an
\* empty Optional when o is present and p(value) is false, and o itself,
\* with p never invoked, when o is absent.
C7_FilterContract ==
    res.op = "filter" =>
        /\ res.kind = "return"
        /\ IF isPresent(heap, res.recv)
           THEN /\ res.callArgs = <<heap[res.recv]>>
                /\ IF PredicateResult(res.argStr, heap[res.recv])
                   THEN res.ref = res.recv /\ res.allocs = 0
                   ELSE res.ref \in Refs /\ ~isPresent(heap, res.ref)
           ELSE /\ res.callArgs = <<>>
                /\ res.ref = res.recv
                /\ res.allocs = 0

C7_Witness_FilterAbsent ==
    /\ res.op = "filter"
    /\ ~isPresent(heap, res.recv)
    /\ res.ref = res.recv

\* C8: o.orElseThrow(errorFactory) returns the held value of a present o
\* without invoking errorFactory; for an absent o it invokes errorFactory
\* exactly once and throws the error errorFactory returned.
C8_OrElseThrowContract ==
    res.op = "orElseThrow" =>
        IF isPresent(heap, res.recv)
        THEN res.kind = "return" /\ res.val = heap[res.recv] /\ res.callArgs = <<>>
        ELSE /\ res.kind = "throw"
             /\ Len(res.callArgs) = 1
             /\ res.err = SupplierResult(res.argStr)

C8_Witness_OrElseThrowAbsent ==
    /\ res.op = "orElseThrow"
    /\ ~isPresent(heap, res.recv)
    /\ res.argStr = "notFound"
    /\ res.kind = "throw"

SamePayload(x, y) ==
    IF x.t = "object" \/ y.t = "object"
    THEN x.t = y.t /\ x.ref = y.ref
    ELSE x = y

\* C10 as stated: a.equals(b) is true when both are empty, true when both
\* are present and hold the same primitive value or the same object, and
\* false in every other case.
C10_EqualsAsStated ==
    res.op = "equals" =>
        /\ res.kind = "return"
        /\ res.val = Bool(\/ ~isPresent(heap, res.recv) /\ ~isPresent(heap, res.argRef)
                          \/ /\ isPresent(heap, res.recv)
                             /\ isPresent(heap, res.argRef)
                             /\ SamePayload(heap[res.recv], heap[res.argRef]))

\* C10: a.equals(b) is true when both are empty, true when both are present
\* and hold the same primitive value other than NaN or the same object, and
\* false in every other case, two Optionals that both hold NaN included.
C10_EqualsContract ==
    res.op = "equals" =>
        /\ res.kind = "return"
        /\ res.val = Bool(\/ ~isPresent(heap, res.recv) /\ ~isPresent(heap, res.argRef)
                          \/ /\ isPresent(heap, res.recv)
                             /\ isPresent(heap, res.argRef)
                             /\ heap[res.recv] # NaN
                             /\ SamePayload(heap[res.recv], heap[res.argRef]))

C10_Witness_DistinctObjects ==
    /\ res.op = "equals"
    /\ heap[res.recv] = Obj(1)
    /\ heap[res.argRef] = Obj(2)
    /\ res.val = Bool(FALSE)

\* Every Optional that exists before a step holds the same _value after it.
OptionalsUnchanged ==
    /\ Len(heap') >= Len(heap)
    /\ \A o \in 1..Len(heap) : heap'[o] = heap[o]

\* C11 as stated: no operation changes the presence state or the held value
\* of any Optional, and map, flatMap and filter only ever return the
\* receiver or a new Optional.
C11_ImmutableAsStated ==
    [][/\ OptionalsUnchanged
       /\ res'.op \in {"map", "flatMap", "filter"} =>
              res'.ref = res'.recv \/ res'.ref > Len(heap)]_vars

\* C11: no operation changes the presence state or the held value of any
\* Optional, and map, flatMap and filter only ever return the receiver, a
\* new Optional or, for flatMap, the Optional its mapper returned.
C11_Immutable ==
    [][/\ OptionalsUnchanged
       /\ res'.op \in {"map", "flatMap", "filter"} =>
              \/ res'.ref = res'.recv
              \/ res'.ref > Len(heap)
              \/ /\ res'.op = "flatMap"
                 /\ isPresent(heap, res'.recv)
                 /\ res'.ref = FlatMapperResult(heap, res'.argStr, heap[res'.recv]).ref]_vars

C11_Witness_ReceiverKeptAfterFilter ==
    /\ res.op = "filter"
    /\ res.ref # res.recv
    /\ isPresent(heap, res.recv)
    /\ ~isPresent(heap, res.ref)

-----------------------------------------------------------------------------
\* More JavaScript values, as the callers of Guard pass them.

\* The array [1, ..., k].
Arr(k) == [t |-> "array", n |-> k, s |-> "", ref |-> 0]

\* The object {}.
EmptyObj == [t |-> "emptyObject", n |-> 0, s |-> "", ref |-> 0]

\* The object { length: k }.
LenObj(k) == [t |-> "lengthObject", n |-> k, s |-> "", ref |-> 0]

\* The bigint k.
BigInt(k) == [t |-> "bigint", n |-> k, s |-> "", ref |-> 0]

\* A function that declares k parameters.
Fn(k) == [t |-> "function", n |-> k, s |-> "", ref |-> 0]

GuardValues ==
    {Undefined, Null, NaN, Num(-1), Num(0), Num(5), Num(11),
     Str(""), Str("   "), Str(" \t"), Str("Example"), Str("123abc"), Str("abc123"),
     Str("say \"hi\""), Bool(TRUE), Bool(FALSE), Arr(0), Arr(3), Obj(1), EmptyObj,
     LenObj(0), LenObj(2), BigInt(10), Fn(0), Fn(2)}

\* typeof x
TypeOf(x) ==
    CASE x.t = "nan" -> "number"
      [] x.t \in {"null", "array", "object", "emptyObject", "lengthObject"} -> "object"
      [] OTHER -> x.t

\* Boolean(x), as || and && convert an operand.
Truthy(x) ==
    ~ \/ x.t \in {"undefined", "null", "nan"}
      \/ x.t \in {"number", "bigint", "boolean"} /\ x.n = 0
      \/ x.t = "string" /\ x.s = ""

\* Array.isArray(x)
IsArray(x) == x.t = "array"

\* x.length, for an x that is neither null nor undefined.
Length(x) ==
    CASE x.t = "string" -> Num(Len(x.s))
      [] x.t \in {"array", "lengthObject", "function"} -> Num(x.n)
      [] OTHER -> Undefined

\* x < y on two numbers
LessThan(x, y) == x.t = "number" /\ y.t = "number" /\ x.n < y.n

Char(str, i) == SubSeq(str, i, i)

WhiteSpace == {" ", "\t", "\n", "\r", "\f"}

\* str.trim()
RECURSIVE Trim(_)
Trim(str) ==
    IF Len(str) = 0 THEN str
    ELSE IF Char(str, 1) \in WhiteSpace THEN Trim(SubSeq(str, 2, Len(str)))
    ELSE IF Char(str, Len(str)) \in WhiteSpace THEN Trim(SubSeq(str, 1, Len(str) - 1))
    ELSE str

\* The characters of a string as JSON.stringify writes them between the quotes.
RECURSIVE JsonEscape(_)
JsonEscape(str) ==
    IF Len(str) = 0 THEN ""
    ELSE LET c == Char(str, 1)
             e == CASE c = "\"" -> "\\\""
                    [] c = "\\" -> "\\\\"
                    [] c = "\t" -> "\\t"
                    [] c = "\n" -> "\\n"
                    [] c = "\r" -> "\\r"
                    [] c = "\f" -> "\\f"
                    [] OTHER -> c
         IN  e \o JsonEscape(SubSeq(str, 2, Len(str)))

\* The elements of the array [1, ..., k] as JSON.stringify writes them.
RECURSIVE JsonElements(_)
JsonElements(k) ==
    IF k = 0 THEN ""
    ELSE IF k = 1 THEN "1"
    ELSE JsonElements(k - 1) \o "," \o ToString(k)

\* JSON.stringify(x): a string, undefined, or a TypeError.
JsonStringify(x) ==
    CASE x.t \in {"undefined", "function"} -> [kind |-> "undefined", text |-> ""]
      [] x.t = "bigint" -> [kind |-> "throw", text |-> "Do not know how to serialize a BigInt"]
      [] x.t \in {"null", "nan"} -> [kind |-> "string", text |-> "null"]
      [] x.t = "number" -> [kind |-> "string", text |-> ToString(x.n)]
      [] x.t = "boolean" -> [kind |-> "string", text |-> IF x.n = 1 THEN "true" ELSE "false"]
      [] x.t = "string" -> [kind |-> "string", text |-> "\"" \o JsonEscape(x.s) \o "\""]
      [] x.t = "array" -> [kind |-> "string", text |-> "[" \o JsonElements(x.n) \o "]"]
      [] x.t = "emptyObject" -> [kind |-> "string", text |-> "{}"]
      [] x.t = "lengthObject" ->
             [kind |-> "string", text |-> "{\"length\":" \o ToString(x.n) \o "}"]
      [] OTHER -> [kind |-> "string", text |-> "{\"a\":" \o ToString(ObjFields[x.ref].a) \o "}"]

-----------------------------------------------------------------------------
\* The exception classes and their superclasses.

\* A variant of the hierarchy in which IllegalArgumentException extends
\* DomainException.
SuperClass_nested ==
    [c \in {"Error", "TypeError", "AssertionError", "Exception", "DomainException",
            "IllegalStateException", "NotFoundException", "IllegalArgumentException",
            "CustomException"} |->
        CASE c = "Error" -> ""
          [] c \in {"TypeError", "AssertionError", "Exception"} -> "Error"
          [] c = "IllegalArgumentException" -> "DomainException"
          [] OTHER -> "Exception"]

SuperClass ==
    [c \in {"Error", "TypeError", "AssertionError", "Exception", "DomainException",
            "IllegalStateException", "NotFoundException", "IllegalArgumentException",
            "CustomException"} |->
        CASE c = "Error" -> ""
          [] c \in {"TypeError", "AssertionError", "Exception"} -> "Error"
          [] OTHER -> "Exception"]

\* e instanceof c
RECURSIVE IsSubclass(_, _)
IsSubclass(ty, c) ==
    IF ty = "" THEN FALSE
    ELSE IF ty = c THEN TRUE
    ELSE IsSubclass(SuperClass[ty], c)

InstanceOf(e, c) == IsSubclass(e.type, c)

\* new c(message), for a concrete subclass c of Exception: super(message)
Exception(c, message) == MkError(c, message)

-----------------------------------------------------------------------------
\* RegExp objects

IsDigit(c) == c \in {"0", "1", "2", "3", "4", "5", "6", "7", "8", "9"}

IsLower(c) ==
    c \in {"a", "b", "c", "d", "e", "f", "g", "h", "i", "j", "k", "l", "m",
           "n", "o", "p", "q", "r", "s", "t", "u", "v", "w", "x", "y", "z"}

\* /^[a-z]+\d+$/.test(str)
LowerDigits(str) ==
    \E k \in 1..(Len(str) - 1) :
        /\ \A i \in 1..k : IsLower(Char(str, i))
        /\ \A i \in (k + 1)..Len(str) : IsDigit(Char(str, i))

\* regex.test(str) on the RegExp rx whose lastIndex is li: whether it matched
\* and the lastIndex it leaves.  /\d+/g searches from lastIndex, leaves the
\* end of the match there and resets it to 0 when nothing matches.
RegexTest(rx, li, str) ==
    IF rx = "lowerDigits"
    THEN [matched |-> LowerDigits(str), lastIndex |-> li]
    ELSE LET starts == {i \in (li + 1)..Len(str) : IsDigit(Char(str, i))}
         IN  IF starts = {}
             THEN [matched |-> FALSE, lastIndex |-> 0]
             ELSE LET b == CHOOSE i \in starts : \A j \in starts : i <= j
                      e == CHOOSE j \in b..Len(str) :
                               /\ \A i \in b..j : IsDigit(Char(str, i))
                               /\ j = Len(str) \/ ~IsDigit(Char(str, j + 1))
                  IN  [matched |-> TRUE, lastIndex |-> e]

-----------------------------------------------------------------------------
\* class Guard<T>: guards[g] holds the fields value, parameterName and
\* exceptionType of the Guard g.  An exception type of "" stands for an
\* omitted exceptionType argument.

\* new Guard(value, parameterName, exceptionType)
Guard(h, v, parameterName, exceptionType) ==
    Append(h, [value |-> v,
               parameterName |-> parameterName,
               exceptionType |-> IF exceptionType # "" THEN exceptionType
                                 ELSE "IllegalArgumentException"])

\* Guard.check(value, parameterName, exceptionType)
check(h, v, parameterName, exceptionType) ==
    ReturnRef(Guard(h, v, IF Truthy(parameterName) THEN parameterName.s ELSE "value",
                    exceptionType),
              Len(h) + 1, <<>>)

\* message || fallback
MessageOr(message, fallback) == IF Truthy(message) THEN message.s ELSE fallback

\* A variant of throwException that writes the value as a template literal
\* does, not as JSON.
throwException_plainText(h, g, message) ==
    Throw(h, MkError(h[g].exceptionType,
                     message \o " Actual value: " \o ToStr(h[g].value) \o "."), <<>>)

\* A variant of throwException that writes null for a value JSON.stringify
\* has no text for.
throwException_nullToken(h, g, message) ==
    LET json == JsonStringify(h[g].value)
    IN  IF json.kind = "throw"
        THEN Throw(h, MkError("TypeError", json.text), <<>>)
        ELSE Throw(h, MkError(h[g].exceptionType,
                              message \o " Actual value: "
                                  \o (IF json.kind = "undefined" THEN "null" ELSE json.text)
                                  \o "."), <<>>)

\* throwException(message)
throwException(h, g, message) ==
    LET json == JsonStringify(h[g].value)
    IN  IF json.kind = "throw"
        THEN Throw(h, MkError("TypeError", json.text), <<>>)
        ELSE Throw(h, MkError(h[g].exceptionType,
                              message \o " Actual value: "
                                  \o (IF json.kind = "undefined" THEN "undefined" ELSE json.text)
                                  \o "."), <<>>)

\* againstNullOrUndefined(message)
againstNullOrUndefined(h, g, message) ==
    IF h[g].value.t = "null" \/ h[g].value.t = "undefined"
    THEN throwException(h, g, MessageOr(message, h[g].parameterName \o " cannot be null or undefined."))
    ELSE ReturnRef(h, g, <<>>)

\* A variant of againstWhitespace that returns a new Guard for the same value.
againstWhitespace_newGuard(h, g, message) ==
    LET first == againstNullOrUndefined(h, g, message)
    IN  IF first.kind = "throw" THEN first
        ELSE IF TypeOf(h[g].value) # "string"
        THEN throwException(h, g, MessageOr(message, h[g].parameterName \o " must be a string."))
        ELSE IF Len(Trim(h[g].value.s)) = 0
        THEN throwException(h, g, MessageOr(message, h[g].parameterName \o " cannot be empty or whitespace."))
        ELSE ReturnRef(Guard(h, h[g].value, h[g].parameterName, h[g].exceptionType),
                       Len(h) + 1, <<>>)

\* againstWhitespace(message)
againstWhitespace(h, g, message) ==
    LET first == againstNullOrUndefined(h, g, message)
    IN  IF first.kind = "throw" THEN first
        ELSE IF TypeOf(h[g].value) # "string"
        THEN throwException(h, g, MessageOr(message, h[g].parameterName \o " must be a string."))
        ELSE IF Len(Trim(h[g].value.s)) = 0
        THEN throwException(h, g, MessageOr(message, h[g].parameterName \o " cannot be empty or whitespace."))
        ELSE ReturnRef(h, g, <<>>)

\* againstEmpty(message)
againstEmpty(h, g, message) ==
    LET first == againstNullOrUndefined(h, g, message)
    IN  IF first.kind = "throw" THEN first
        ELSE IF ~ \/ TypeOf(h[g].value) = "string"
                  \/ IsArray(h[g].value)
                  \/ Truthy(h[g].value) /\ TypeOf(Length(h[g].value)) = "number"
        THEN throwException(h, g, MessageOr(message, h[g].parameterName
                 \o " must be a string, array, or have a length property to check for empty."))
        ELSE IF StrictEquals(Length(h[g].value), Num(0))
        THEN throwException(h, g, MessageOr(message, h[g].parameterName \o " cannot be empty."))
        ELSE ReturnRef(h, g, <<>>)

\* A variant of againstNegative that rejects zero as well.
againstNegative_rejectsZero(h, g, message) ==
    LET first == againstNullOrUndefined(h, g, message)
    IN  IF first.kind = "throw" THEN first
        ELSE IF TypeOf(h[g].value) # "number" \/ h[g].value.t = "nan"
        THEN throwException(h, g, MessageOr(message, h[g].parameterName \o " must be a valid number."))
        ELSE IF LessThan(h[g].value, Num(0)) \/ StrictEquals(h[g].value, Num(0))
        THEN throwException(h, g, MessageOr(message, h[g].parameterName \o " cannot be negative."))
        ELSE ReturnRef(h, g, <<>>)

\* againstNegative(message)
againstNegative(h, g, message) ==
    LET first == againstNullOrUndefined(h, g, message)
    IN  IF first.kind = "throw" THEN first
        ELSE IF TypeOf(h[g].value) # "number" \/ h[g].value.t = "nan"
        THEN throwException(h, g, MessageOr(message, h[g].parameterName \o " must be a valid number."))
        ELSE IF LessThan(h[g].value, Num(0))
        THEN throwException(h, g, MessageOr(message, h[g].parameterName \o " cannot be negative."))
        ELSE ReturnRef(h, g, <<>>)

\* againstZero(message)
againstZero(h, g, message) ==
    LET first == againstNullOrUndefined(h, g, message)
    IN  IF first.kind = "throw" THEN first
        ELSE IF TypeOf(h[g].value) # "number" \/ h[g].value.t = "nan"
        THEN throwException(h, g, MessageOr(message, h[g].parameterName \o " must be a valid number."))
        ELSE IF StrictEquals(h[g].value, Num(0))
        THEN throwException(h, g, MessageOr(message, h[g].parameterName \o " cannot be zero."))
        ELSE ReturnRef(h, g, <<>>)

\* isInRange(min, max, message)
isInRange(h, g, min, max, message) ==
    LET first == againstNullOrUndefined(h, g, message)
    IN  IF first.kind = "throw" THEN first
        ELSE IF TypeOf(h[g].value) # "number" \/ h[g].value.t = "nan"
        THEN throwException(h, g, MessageOr(message, h[g].parameterName \o " must be a valid number."))
        ELSE IF LessThan(h[g].value, min) \/ LessThan(max, h[g].value)
        THEN throwException(h, g, MessageOr(message, h[g].parameterName
                 \o " must be between " \o ToStr(min) \o " and " \o ToStr(max) \o "."))
        ELSE ReturnRef(h, g, <<>>)

\* An outcome together with the lastIndex the call leaves in its RegExp.
WithLastIndex(out, li) ==
    [kind |-> out.kind, heap |-> out.heap, val |-> out.val, ref |-> out.ref,
     err |-> out.err, callArgs |-> out.callArgs, lastIndex |-> li]

\* matches(regex, message), on the RegExp rx whose lastIndex is li.
matches(h, g, rx, li, message) ==
    LET first == againstNullOrUndefined(h, g, message)
    IN  IF first.kind = "throw" THEN WithLastIndex(first, li)
        ELSE IF TypeOf(h[g].value) # "string"
        THEN WithLastIndex(
                 throwException(h, g, MessageOr(message, h[g].parameterName \o " must be a string.")),
                 li)
        ELSE LET test == RegexTest(rx, li, h[g].value.s)
             IN  IF ~test.matched
                 THEN WithLastIndex(
                          throwException(h, g, MessageOr(message, h[g].parameterName
                              \o " does not match the required pattern.")),
                          test.lastIndex)
                 ELSE WithLastIndex(ReturnRef(h, g, <<>>), test.lastIndex)

\* isType(type, message)
isType(h, g, type, message) ==
    IF TypeOf(h[g].value) # type
    THEN throwException(h, g, MessageOr(message, h[g].parameterName
             \o " must be of type " \o type \o "."))
    ELSE ReturnRef(h, g, <<>>)

-----------------------------------------------------------------------------
\* The state machine of a validation: a caller creates a Guard with
\* Guard.check and invokes checks on it; gres records the last call and its
\* outcome.

\* The arguments the callers pass in.
ParameterNames == {Undefined, Str("testParam")}

ExceptionTypes == {"", "CustomException"}

CustomMessages == {Undefined, Str(""), Str("Custom error message")}

RangeBounds == {Num(1), Num(10), NaN}

TypeNames ==
    {"string", "number", "boolean", "object", "function", "symbol", "undefined", "bigint"}

GuardRefs == 1..Len(guards)

NoArgs ==
    [op |-> "", recv |-> 0, argVal |-> Undefined, argName |-> Undefined, argType |-> "",
     argMsg |-> Undefined, argMin |-> Undefined, argMax |-> Undefined, argStr |-> ""]

GuardCall(args, out) ==
    /\ guards' = out.heap
    /\ gres' = [op |-> args.op, recv |-> args.recv, argVal |-> args.argVal,
                argName |-> args.argName, argType |-> args.argType,
                argMsg |-> args.argMsg, argMin |-> args.argMin, argMax |-> args.argMax,
                argStr |-> args.argStr, kind |-> out.kind, ref |-> out.ref,
                err |-> out.err, allocs |-> Len(out.heap) - Len(guards)]
    /\ UNCHANGED <<optionalVars, uuidVars, exc, chain, script>>

Check ==
    /\ guards = <<>>
    /\ \E v \in GuardValues, name \in ParameterNames, type \in ExceptionTypes :
           GuardCall([NoArgs EXCEPT !.op = "check", !.argVal = v, !.argName = name,
                                    !.argType = type],
                     check(guards, v, name, type))
    /\ UNCHANGED lastIndex

AgainstNullOrUndefined ==
    /\ \E g \in GuardRefs, message \in CustomMessages :
           GuardCall([NoArgs EXCEPT !.op = "againstNullOrUndefined", !.recv = g,
                                    !.argMsg = message],
                     againstNullOrUndefined(guards, g, message))
    /\ UNCHANGED lastIndex

AgainstWhitespace ==
    /\ \E g \in GuardRefs, message \in CustomMessages :
           GuardCall([NoArgs EXCEPT !.op = "againstWhitespace", !.recv = g,
                                    !.argMsg = message],
                     againstWhitespace(guards, g, message))
    /\ UNCHANGED lastIndex

AgainstEmpty ==
    /\ \E g \in GuardRefs, message \in CustomMessages :
           GuardCall([NoArgs EXCEPT !.op = "againstEmpty", !.recv = g, !.argMsg = message],
                     againstEmpty(guards, g, message))
    /\ UNCHANGED lastIndex

AgainstNegative ==
    /\ \E g \in GuardRefs, message \in CustomMessages :
           GuardCall([NoArgs EXCEPT !.op = "againstNegative", !.recv = g, !.argMsg = message],
                     againstNegative(guards, g, message))
    /\ UNCHANGED lastIndex

AgainstZero ==
    /\ \E g \in GuardRefs, message \in CustomMessages :
           GuardCall([NoArgs EXCEPT !.op = "againstZero", !.recv = g, !.argMsg = message],
                     againstZero(guards, g, message))
    /\ UNCHANGED lastIndex

IsInRange ==
    /\ \E g \in GuardRefs, min \in RangeBounds, max \in RangeBounds, message \in CustomMessages :
           GuardCall([NoArgs EXCEPT !.op = "isInRange", !.recv = g, !.argMin = min,
                                    !.argMax = max, !.argMsg = message],
                     isInRange(guards, g, min, max, message))
    /\ UNCHANGED lastIndex

Matches ==
    \E g \in GuardRefs, rx \in Regexes, message \in CustomMessages :
        LET out == matches(guards, g, rx, lastIndex[rx], message)
        IN  /\ GuardCall([NoArgs EXCEPT !.op = "matches", !.recv = g, !.argStr = rx,
                                        !.argMsg = message],
                         out)
            /\ lastIndex' = [lastIndex EXCEPT ![rx] = out.lastIndex]

IsType ==
    /\ \E g \in GuardRefs, type \in TypeNames, message \in CustomMessages :
           GuardCall([NoArgs EXCEPT !.op = "isType", !.recv = g, !.argStr = type,
                                    !.argMsg = message],
                     isType(guards, g, type, message))
    /\ UNCHANGED lastIndex

GuardNext ==
    \/ Check
    \/ AgainstNullOrUndefined
    \/ AgainstWhitespace
    \/ AgainstEmpty
    \/ AgainstNegative
    \/ AgainstZero
    \/ IsInRange
    \/ Matches
    \/ IsType

GuardSpec == Init /\ [][GuardNext]_vars

-----------------------------------------------------------------------------
\* The class UUID and assertUUIDIsValid

\* The lower-case letter of an ASCII upper-case letter; any other character
\* is kept.
LowerChar(c) ==
    CASE c = "A" -> "a" [] c = "B" -> "b" [] c = "C" -> "c" [] c = "D" -> "d"
      [] c = "E" -> "e" [] c = "F" -> "f" [] c = "G" -> "g" [] c = "H" -> "h"
      [] c = "I" -> "i" [] c = "J" -> "j" [] c = "K" -> "k" [] c = "L" -> "l"
      [] c = "M" -> "m" [] c = "N" -> "n" [] c = "O" -> "o" [] c = "P" -> "p"
      [] c = "Q" -> "q" [] c = "R" -> "r" [] c = "S" -> "s" [] c = "T" -> "t"
      [] c = "U" -> "u" [] c = "V" -> "v" [] c = "W" -> "w" [] c = "X" -> "x"
      [] c = "Y" -> "y" [] c = "Z" -> "z" [] OTHER -> c

\* str.toLowerCase() from position i on, on ASCII strings
RECURSIVE LowerFrom(_, _)
LowerFrom(str, i) ==
    IF i > Len(str) THEN "" ELSE LowerChar(Char(str, i)) \o LowerFrom(str, i + 1)

\* str.toLowerCase()
ToLowerCase(str) == LowerFrom(str, 1)

IsHex(c) ==
    c \in {"0", "1", "2", "3", "4", "5", "6", "7", "8", "9", "a", "b", "c", "d", "e", "f",
           "A", "B", "C", "D", "E", "F"}

\* v4.validate(id) of @std/uuid:
\* /^[0-9a-f]{8}-[0-9a-f]{4}-[1-5][0-9a-f]{3}-[89ab][0-9a-f]{3}-[0-9a-f]{12}$/i
V4Validate(id) ==
    /\ Len(id) = 36
    /\ \A i \in 1..36 :
           CASE i \in {9, 14, 19, 24} -> Char(id, i) = "-"
             [] i = 15 -> Char(id, i) \in {"1", "2", "3", "4", "5"}
             [] i = 20 -> Char(id, i) \in {"8", "9", "a", "b", "A", "B"}
             [] OTHER -> IsHex(Char(id, i))

\* private constructor(value)
UUID(h, v) == ReturnRef(Append(h, v), Len(h) + 1, <<>>)

\* static create(), where random is the string crypto.randomUUID() returns
UUID_create(h, random) == UUID(h, random)

\* A variant of parse that stores the string in lower case.
UUID_parse_lowerCased(h, uuidString) ==
    IF ~V4Validate(uuidString)
    THEN Throw(h, MkError("IllegalArgumentException", "Invalid UUID"), <<>>)
    ELSE UUID(h, ToLowerCase(uuidString))

\* static parse(uuidString)
UUID_parse(h, uuidString) ==
    IF ~V4Validate(uuidString)
    THEN Throw(h, MkError("IllegalArgumentException", "Invalid UUID"), <<>>)
    ELSE UUID(h, uuidString)

\* toString()
UUID_toString(h, u) == Return(h, Str(h[u]), <<>>)

\* get value()
UUID_value(h, u) == Return(h, Str(h[u]), <<>>)

\* A UUID instance as an argument.
UuidArg(u) == [t |-> "uuid", n |-> 0, s |-> "", ref |-> u]

\* other instanceof UUID ? other._value : other
OtherValue(h, other) == IF other.t = "uuid" THEN h[other.ref] ELSE other.s

\* A variant of equals that compares the strings as they are.
UUID_equals_caseSensitive(h, u, other) ==
    Return(h, Bool(h[u] = OtherValue(h, other)), <<>>)

\* equals(other)
UUID_equals(h, u, other) ==
    Return(h, Bool(ToLowerCase(h[u]) = ToLowerCase(OtherValue(h, other))), <<>>)

\* assertUUIDIsValid(uuid)
assertUUIDIsValid(h, uuid) ==
    LET uuidString == IF uuid.t = "uuid" THEN UUID_toString(h, uuid.ref).val.s ELSE uuid.s
    IN  IF V4Validate(uuidString)
        THEN Return(h, Undefined, <<>>)
        ELSE Throw(h, MkError("AssertionError", "Invalid UUID: " \o uuidString), <<>>)

-----------------------------------------------------------------------------
\* The state machine of the UUIDs: callers create and parse UUIDs, read
\* UUID.EMPTY and compare; ures records the last call and its outcome.

\* The strings crypto.randomUUID() may return.
RandomUuids ==
    {"3d6f0a3b-7b9c-4d2a-9f3c-1e2d3c4b5a6f", "550e8400-e29b-41d4-a716-446655440000"}

\* The strings the callers pass in.
UuidStrings ==
    {"550e8400-e29b-41d4-a716-446655440000",
     "550E8400-E29B-41D4-A716-446655440000",
     "550e8400-e29b-41d4-a716-44665544000",
     "550e8400-e29b-41d4-c716-446655440000",
     "00000000-0000-0000-0000-000000000000",
     "3D6F0A3B-7b9c-4d2a-9f3c-1e2d3c4b5a6f",
     "invalid-uuid",
     ""}

UuidRefs == 1..Len(uuids)

UuidCall(op, recv, argStr, argRef, out) ==
    /\ uuids' = out.heap
    /\ ures' = [op |-> op, recv |-> recv, argStr |-> argStr, argRef |-> argRef,
                kind |-> out.kind, val |-> out.val, ref |-> out.ref, err |-> out.err,
                allocs |-> Len(out.heap) - Len(uuids)]
    /\ UNCHANGED <<optionalVars, guardVars, exc, chain, script>>

GetEMPTY == UuidCall("EMPTY", 0, "", 0, ReturnRef(uuids, EMPTY, <<>>))

Create ==
    /\ Len(uuids) < MaxUuids
    /\ \E random \in RandomUuids :
           UuidCall("create", 0, "", 0, UUID_create(uuids, random))

Parse ==
    /\ Len(uuids) < MaxUuids
    /\ \E uuidString \in UuidStrings :
           UuidCall("parse", 0, uuidString, 0, UUID_parse(uuids, uuidString))

UuidToString ==
    \E u \in UuidRefs : UuidCall("toString", u, "", 0, UUID_toString(uuids, u))

UuidValue ==
    \E u \in UuidRefs : UuidCall("value", u, "", 0, UUID_value(uuids, u))

UuidEquals ==
    \E u \in UuidRefs :
        \/ \E other \in UuidRefs :
               UuidCall("equals", u, "", other, UUID_equals(uuids, u, UuidArg(other)))
        \/ \E other \in UuidStrings :
               UuidCall("equals", u, other, 0, UUID_equals(uuids, u, Str(other)))

AssertUUIDIsValid ==
    \/ \E u \in UuidRefs :
           UuidCall("assertUUIDIsValid", 0, "", u, assertUUIDIsValid(uuids, UuidArg(u)))
    \/ \E str \in UuidStrings :
           UuidCall("assertUUIDIsValid", 0, str, 0, assertUUIDIsValid(uuids, Str(str)))

UuidNext ==
    \/ GetEMPTY
    \/ Create
    \/ Parse
    \/ UuidToString
    \/ UuidValue
    \/ UuidEquals
    \/ AssertUUIDIsValid

UuidSpec == Init /\ [][UuidNext]_vars

-----------------------------------------------------------------------------
\* Checks called by name

\* A check together with its arguments.
CheckCall(op, min, max, str) ==
    [op |-> op, argMsg |-> Undefined, argMin |-> min, argMax |-> max, argStr |-> str]

\* The checks a caller writes in a validation.
CheckCalls ==
    {CheckCall("againstNullOrUndefined", Undefined, Undefined, ""),
     CheckCall("againstWhitespace", Undefined, Undefined, ""),
     CheckCall("againstEmpty", Undefined, Undefined, ""),
     CheckCall("againstNegative", Undefined, Undefined, ""),
     CheckCall("againstZero", Undefined, Undefined, ""),
     CheckCall("isInRange", Num(1), Num(10), ""),
     CheckCall("isInRange", NaN, Num(10), ""),
     CheckCall("matches", Undefined, Undefined, "lowerDigits"),
     CheckCall("matches", Undefined, Undefined, "digitsGlobal"),
     CheckCall("isType", Undefined, Undefined, "string"),
     CheckCall("isType", Undefined, Undefined, "number")}

\* g.<c.op>(<c's arguments>), where li is the lastIndex of every RegExp: the
\* outcome and the lastIndex the call leaves in the RegExp it used.
Invoke(h, g, c, li) ==
    CASE c.op = "againstNullOrUndefined" ->
             WithLastIndex(againstNullOrUndefined(h, g, c.argMsg), 0)
      [] c.op = "againstWhitespace" -> WithLastIndex(againstWhitespace(h, g, c.argMsg), 0)
      [] c.op = "againstEmpty" -> WithLastIndex(againstEmpty(h, g, c.argMsg), 0)
      [] c.op = "againstNegative" -> WithLastIndex(againstNegative(h, g, c.argMsg), 0)
      [] c.op = "againstZero" -> WithLastIndex(againstZero(h, g, c.argMsg), 0)
      [] c.op = "isInRange" ->
             WithLastIndex(isInRange(h, g, c.argMin, c.argMax, c.argMsg), 0)
      [] c.op = "matches" -> matches(h, g, c.argStr, li[c.argStr], c.argMsg)
      [] OTHER -> WithLastIndex(isType(h, g, c.argStr, c.argMsg), 0)

-----------------------------------------------------------------------------
\* The state machine of a catch site: callers construct exceptions of the
\* concrete kinds, validate with a Guard and parse UUIDs inside try blocks;
\* exc is the exception caught last.

\* DomainException, IllegalStateException, NotFoundException and
\* IllegalArgumentException
Kinds ==
    {"DomainException", "IllegalStateException", "NotFoundException",
     "IllegalArgumentException"}

\* The messages the callers construct exceptions with.
ExceptionMessages ==
    {"", "User not found.", "Invalid user ID.", "NotFoundException",
     "This is a custom exception."}

\* try { throw new kind(message) } catch (e) { ... }
ThrowNew ==
    /\ \E kind \in Kinds \cup {"CustomException"}, message \in ExceptionMessages :
           exc' = Exception(kind, message)
    /\ UNCHANGED <<optionalVars, guardVars, uuidVars, chain, script>>

\* try { Guard.check(v, 'testParam', type).c(...) } catch (e) { ... }
CatchGuard ==
    /\ \E v \in GuardValues, type \in ExceptionTypes, c \in CheckCalls :
           LET g == check(<<>>, v, Str("testParam"), type)
               out == Invoke(g.heap, g.ref, c, [r \in Regexes |-> 0])
           IN  /\ out.kind = "throw"
               /\ exc' = out.err
    /\ UNCHANGED <<optionalVars, guardVars, uuidVars, chain, script>>

\* try { UUID.parse(s) } catch (e) { ... }
CatchParse ==
    /\ \E uuidString \in UuidStrings :
           LET out == UUID_parse(uuids, uuidString)
           IN  /\ out.kind = "throw"
               /\ exc' = out.err
    /\ UNCHANGED <<optionalVars, guardVars, uuidVars, chain, script>>

ExceptionNext ==
    \/ ThrowNew
    \/ CatchGuard
    \/ CatchParse

ExceptionSpec == Init /\ [][ExceptionNext]_vars

-----------------------------------------------------------------------------
\* The state machine of a chained validation,
\* Guard.check(v, name, type).c1(...)...cn(...): every check is called on the
\* guard the check before it returned, and a check that throws ends the
\* evaluation of the chain.

\* The values the chains validate.
ChainValues ==
    {Null, NaN, Num(0), Num(5), Str(""), Str("abc123"), Str("123abc"), BigInt(10)}

\* Guard.check(v, name, type)
StartChain ==
    /\ \E v \in ChainValues, type \in ExceptionTypes :
           chain' = [guards |-> check(<<>>, v, Str("testParam"), type).heap,
                     calls |-> <<>>,
                     lastIndex |-> [r \in Regexes |-> 0]]
    /\ UNCHANGED <<optionalVars, guardVars, uuidVars, exc, script>>

\* The guard the next check of the chain is called on.
ChainReceiver ==
    IF chain.calls = <<>> THEN 1 ELSE chain.calls[Len(chain.calls)].ref

\* .c(...)
ChainStep ==
    /\ chain.guards # <<>>
    /\ Len(chain.calls) < MaxChain
    /\ chain.calls # <<>> => chain.calls[Len(chain.calls)].kind = "return"
    /\ \E c \in CheckCalls :
           LET out == Invoke(chain.guards, ChainReceiver, c, chain.lastIndex)
           IN  chain' = [guards |-> out.heap,
                         calls |-> Append(chain.calls,
                                          [call |-> c, recv |-> ChainReceiver,
                                           kind |-> out.kind, ref |-> out.ref,
                                           err |-> out.err]),
                         lastIndex |-> IF c.op = "matches"
                                       THEN [chain.lastIndex EXCEPT ![c.argStr] = out.lastIndex]
                                       ELSE chain.lastIndex]
    /\ UNCHANGED <<optionalVars, guardVars, uuidVars, exc, script>>

ChainNext ==
    \/ StartChain
    \/ ChainStep

ChainSpec == Init /\ [][ChainNext]_vars

-----------------------------------------------------------------------------
\* Properties of Guard

GuardChecks ==
    {"againstNullOrUndefined", "againstWhitespace", "againstEmpty", "againstNegative",
     "againstZero", "isInRange", "matches", "isType"}

\* The reasons a check gives by default.
Reasons(call) ==
    CASE call.op = "againstNullOrUndefined" -> {"cannot be null or undefined"}
      [] call.op = "againstWhitespace" ->
             {"cannot be null or undefined", "must be a string", "cannot be empty or whitespace"}
      [] call.op = "againstEmpty" ->
             {"cannot be null or undefined",
              "must be a string, array, or have a length property to check for empty",
              "cannot be empty"}
      [] call.op = "againstNegative" ->
             {"cannot be null or undefined", "must be a valid number", "cannot be negative"}
      [] call.op = "againstZero" ->
             {"cannot be null or undefined", "must be a valid number", "cannot be zero"}
      [] call.op = "isInRange" ->
             {"cannot be null or undefined", "must be a valid number",
              "must be between " \o ToStr(call.argMin) \o " and " \o ToStr(call.argMax)}
      [] call.op = "matches" ->
             {"cannot be null or undefined", "must be a string",
              "does not match the required pattern"}
      [] call.op = "isType" -> {"must be of type " \o call.argStr}
      [] OTHER -> {}

StartsWith(str, prefix) == Len(str) >= Len(prefix) /\ SubSeq(str, 1, Len(prefix)) = prefix

EndsWith(str, suffix) ==
    Len(str) >= Len(suffix) /\ SubSeq(str, Len(str) - Len(suffix) + 1, Len(str)) = suffix

\* The last call was a check that raised.
CheckFailed == gres.op \in GuardChecks /\ gres.kind = "throw"

\* C12 as stated: whenever a check fails on a value that JSON.stringify
\* turns into a string, the message is M + ' Actual value: ' + JSON(value) +
\* '.', where M is the caller's message when one is given and otherwise the
\* default '<parameterName> <reason>.'.
C12_MessageAsStated ==
    CheckFailed /\ JsonStringify(guards[gres.recv].value).kind = "string" =>
        LET tail == " Actual value: " \o JsonStringify(guards[gres.recv].value).text \o "."
        IN  IF gres.argMsg # Undefined
            THEN gres.err.message = gres.argMsg.s \o tail
            ELSE \E reason \in Reasons(gres) :
                     gres.err.message =
                         guards[gres.recv].parameterName \o " " \o reason \o "." \o tail

\* C12: whenever a check fails on a value that JSON.stringify turns into a
\* string, the message is M + ' Actual value: ' + JSON(value) + '.', where M
\* is the caller's message when a non-empty one is given and otherwise (no
\* message, or the empty string) the default '<parameterName> <reason>.'.
C12_Message ==
    CheckFailed /\ JsonStringify(guards[gres.recv].value).kind = "string" =>
        LET tail == " Actual value: " \o JsonStringify(guards[gres.recv].value).text \o "."
        IN  IF gres.argMsg # Undefined /\ gres.argMsg # Str("")
            THEN gres.err.message = gres.argMsg.s \o tail
            ELSE \E reason \in Reasons(gres) :
                     gres.err.message =
                         guards[gres.recv].parameterName \o " " \o reason \o "." \o tail

C12_Witness_QuotedString ==
    /\ CheckFailed
    /\ gres.op = "againstWhitespace"
    /\ gres.argMsg = Undefined
    /\ gres.err.message = "testParam cannot be empty or whitespace. Actual value: \"   \"."

\* C13 as stated: when a check fails on a value for which JSON.stringify
\* yields undefined, the 'Actual value:' part of the message is the token
\* null.
C13_UndefinedAsStated ==
    CheckFailed /\ JsonStringify(guards[gres.recv].value).kind = "undefined" =>
        EndsWith(gres.err.message, " Actual value: null.")

\* C13: when a check fails on a value for which JSON.stringify yields
\* undefined, the 'Actual value:' part of the message is the token
\* undefined.
C13_Undefined ==
    CheckFailed /\ JsonStringify(guards[gres.recv].value).kind = "undefined" =>
        EndsWith(gres.err.message, " Actual value: undefined.")

C13_Witness_UndefinedValue ==
    /\ CheckFailed
    /\ gres.op = "againstNullOrUndefined"
    /\ guards[gres.recv].value = Undefined
    /\ gres.err.message = "testParam cannot be null or undefined. Actual value: undefined."

\* C14: every failure of every check raises an instance of the exception
\* type given to Guard.check, IllegalArgumentException when none was given,
\* and an instance of a given custom type is no IllegalArgumentException.
C14_ExceptionType ==
    /\ gres.op = "check" =>
           guards[gres.ref].exceptionType =
               IF gres.argType = "" THEN "IllegalArgumentException" ELSE gres.argType
    /\ CheckFailed =>
           /\ InstanceOf(gres.err, guards[gres.recv].exceptionType)
           /\ guards[gres.recv].exceptionType = "CustomException" =>
                  ~InstanceOf(gres.err, "IllegalArgumentException")

\* Every Guard that exists before a step has the same fields after it.
GuardsUnchanged ==
    /\ Len(guards') >= Len(guards)
    /\ \A g \in 1..Len(guards) : guards'[g] = guards[g]

\* C15: every check either raises or returns the very guard it was called
\* on, and no check changes the bound value, the parameter name or the
\* exception type of a guard, which are those passed to Guard.check.
C15_SameGuard ==
    [][/\ GuardsUnchanged
       /\ gres'.op = "check" => guards'[gres'.ref].value = gres'.argVal
       /\ gres'.op \in GuardChecks =>
              /\ Len(guards') = Len(guards)
              /\ gres'.kind = "throw" \/ (gres'.kind = "return" /\ gres'.ref = gres'.recv)]_vars

C15_Witness_ChainedGuard ==
    /\ gres.op = "againstWhitespace"
    /\ gres.kind = "return"
    /\ gres.ref = gres.recv
    /\ guards[gres.recv].value = Str("Example")

\* The value the last call's guard is bound to.
Guarded == guards[gres.recv].value

\* The last call returned the guard it was called on.
ReturnedGuard == gres.kind = "return" /\ gres.ref = gres.recv

\* The last call raised with the given reason: its message starts with the
\* caller's message, or with '<parameterName> <reason>.' when the caller
\* gave none.
Raised(reason) ==
    /\ gres.kind = "throw"
    /\ StartsWith(gres.err.message,
                  (IF gres.argMsg \in {Undefined, Str("")}
                   THEN guards[gres.recv].parameterName \o " " \o reason \o "."
                   ELSE gres.argMsg.s) \o " Actual value: ")

StagedChecks ==
    {"againstWhitespace", "againstEmpty", "againstNegative", "againstZero", "isInRange",
     "matches"}

\* The value has the type the check's second stage asks for: a string, a
\* string or array or object with a numeric length, or a number that is not NaN.
TypeStageOk(op, v) ==
    CASE op \in {"againstWhitespace", "matches"} -> v.t = "string"
      [] op = "againstEmpty" -> v.t \in {"string", "array", "lengthObject", "function"}
      [] OTHER -> v.t = "number"

TypeReason(op) ==
    CASE op \in {"againstWhitespace", "matches"} -> "must be a string"
      [] op = "againstEmpty" ->
             "must be a string, array, or have a length property to check for empty"
      [] OTHER -> "must be a valid number"

OwnReason(call) ==
    CASE call.op = "againstWhitespace" -> "cannot be empty or whitespace"
      [] call.op = "againstEmpty" -> "cannot be empty"
      [] call.op = "againstNegative" -> "cannot be negative"
      [] call.op = "againstZero" -> "cannot be zero"
      [] call.op = "isInRange" ->
             "must be between " \o ToStr(call.argMin) \o " and " \o ToStr(call.argMax)
      [] OTHER -> "does not match the required pattern"

\* C16: in againstWhitespace, againstEmpty, againstNegative, againstZero,
\* isInRange and matches the stages run in the order not-null, type, own
\* condition, and the exception raised carries the reason of the first stage
\* that fails: null and undefined give 'cannot be null or undefined', a value
\* of the wrong type (NaN included) gives the type reason, and only a value
\* of the right type gives the check's own reason.
C16_StageOrder ==
    gres.op \in StagedChecks /\ gres.argMsg = Undefined =>
        IF Guarded \in {Null, Undefined}
        THEN Raised("cannot be null or undefined")
        ELSE IF ~TypeStageOk(gres.op, Guarded)
        THEN Raised(TypeReason(gres.op))
        ELSE gres.kind = "throw" => Raised(OwnReason(gres))

\* The string has a character that is no whitespace.
HasNonWhitespace(str) == \E i \in 1..Len(str) : Char(str, i) \notin WhiteSpace

\* C17: againstWhitespace returns the guard exactly when the value is a
\* string with at least one non-whitespace character; it raises 'must be a
\* string' for a non-null value of another type and 'cannot be empty or
\* whitespace' for an empty or all-whitespace string.
C17_AgainstWhitespace ==
    gres.op = "againstWhitespace" =>
        /\ ReturnedGuard <=> (Guarded.t = "string" /\ HasNonWhitespace(Guarded.s))
        /\ Guarded \notin {Null, Undefined} /\ Guarded.t # "string" =>
               Raised("must be a string")
        /\ Guarded.t = "string" /\ ~HasNonWhitespace(Guarded.s) =>
               Raised("cannot be empty or whitespace")

\* C18: againstEmpty returns the guard exactly when the value is a string,
\* an array or an object exposing a numeric length, and that length is
\* nonzero; a non-null value of any other kind raises 'must be a string,
\* array, or have a length property', and a length of 0 raises 'cannot be
\* empty'.
C18_AgainstEmpty ==
    gres.op = "againstEmpty" =>
        LET measurable == Guarded.t \in {"string", "array", "lengthObject", "function"}
            length == IF Guarded.t = "string" THEN Len(Guarded.s) ELSE Guarded.n
        IN  /\ ReturnedGuard <=> (measurable /\ length # 0)
            /\ Guarded \notin {Null, Undefined} /\ ~measurable =>
                   Raised("must be a string, array, or have a length property to check for empty")
            /\ measurable /\ length = 0 => Raised("cannot be empty")

\* C19: for every valid number v, againstNegative returns the guard iff
\* v >= 0 and raises 'cannot be negative' otherwise, and againstZero returns
\* the guard iff v is not 0 and raises 'cannot be zero' otherwise.
C19_NegativeAndZero ==
    /\ gres.op = "againstNegative" /\ Guarded.t = "number" =>
           IF Guarded.n >= 0 THEN ReturnedGuard ELSE Raised("cannot be negative")
    /\ gres.op = "againstZero" /\ Guarded.t = "number" =>
           IF Guarded.n # 0 THEN ReturnedGuard ELSE Raised("cannot be zero")

C19_Witness_ZeroIsNotNegative ==
    /\ gres.op = "againstNegative"
    /\ Guarded = Num(0)
    /\ ReturnedGuard

\* C20: isInRange(min, max) returns the guard exactly when the value is a
\* valid number with min <= value <= max, and raises 'must be between {min}
\* and {max}' for every valid number outside the interval.
C20_IsInRange ==
    gres.op = "isInRange" =>
        LET inside == /\ Guarded.t = "number"
                      /\ gres.argMin.t = "number"
                      /\ gres.argMax.t = "number"
                      /\ gres.argMin.n <= Guarded.n
                      /\ Guarded.n <= gres.argMax.n
        IN  /\ ReturnedGuard <=> inside
            /\ Guarded.t = "number" /\ ~inside => Raised(OwnReason(gres))

\* C21: isType(typeName) returns the guard exactly when typeof value equals
\* typeName and raises 'must be of type {typeName}' otherwise; there is no
\* null/undefined stage, so undefined passes isType('undefined') and null is
\* judged by its type tag ('object') alone.
C21_IsType ==
    gres.op = "isType" =>
        /\ ReturnedGuard <=> TypeOf(Guarded) = gres.argStr
        /\ TypeOf(Guarded) # gres.argStr => Raised("must be of type " \o gres.argStr)

\* The string matches the pattern: what test answers on a RegExp whose
\* lastIndex is 0.
MatchesPattern(rx, str) == RegexTest(rx, 0, str).matched

\* C22: matches(regex) returns the guard exactly when the value is a string
\* that matches regex; it raises 'must be a string' for a non-null value of
\* another type and 'does not match the required pattern' for a string that
\* does not match.
C22_Matches ==
    gres.op = "matches" =>
        /\ ReturnedGuard <=> (Guarded.t = "string" /\ MatchesPattern(gres.argStr, Guarded.s))
        /\ Guarded \notin {Null, Undefined} /\ Guarded.t # "string" =>
               Raised("must be a string")
        /\ Guarded.t = "string" /\ ~MatchesPattern(gres.argStr, Guarded.s) =>
               Raised("does not match the required pattern")

\* C29: every check is a function of the guard and the check's arguments:
\* a check called again on the same guard with the same arguments has the
\* outcome of the call before it (both return the guard, or both raise an
\* exception of the same type with the same message), matches with the same
\* RegExp object included.
C29_Repeatable ==
    [][/\ gres.op \in GuardChecks
       /\ gres'.op = gres.op
       /\ gres'.recv = gres.recv
       /\ gres'.argMsg = gres.argMsg
       /\ gres'.argMin = gres.argMin
       /\ gres'.argMax = gres.argMax
       /\ gres'.argStr = gres.argStr
       /\ gres'.argType = gres.argType
       => /\ gres'.kind = gres.kind
          /\ gres'.ref = gres.ref
          /\ gres'.err = gres.err]_vars

-----------------------------------------------------------------------------
\* Properties of UUID

\* C25: UUID.parse(s) returns a new UUID whose value and toString() are
\* exactly s when s passes the validator, and raises
\* IllegalArgumentException('Invalid UUID') without creating a UUID for every
\* other string, the empty string and a UUID one digit short included.
C25_ParseContract ==
    ures.op = "parse" =>
        /\ IF V4Validate(ures.argStr)
           THEN /\ ures.kind = "return"
                /\ ures.allocs = 1
                /\ ures.ref = Len(uuids)
                /\ UUID_value(uuids, ures.ref).val = Str(ures.argStr)
                /\ UUID_toString(uuids, ures.ref).val = Str(ures.argStr)
           ELSE /\ ures.kind = "throw"
                /\ ures.err = MkError("IllegalArgumentException", "Invalid UUID")
                /\ ures.allocs = 0
        /\ ures.argStr \in {"", "550e8400-e29b-41d4-a716-44665544000"} => ures.kind = "throw"

C25_Witness_ParseKeepsCase ==
    /\ ures.op = "parse"
    /\ ures.kind = "return"
    /\ uuids[ures.ref] = "550E8400-E29B-41D4-A716-446655440000"

\* Two characters that are equal or the two cases of one letter.
SameLetter(c, d) == c = d \/ LowerChar(c) = d \/ LowerChar(d) = c

\* Two strings that are equal ignoring letter case.
EqualIgnoringCase(x, y) ==
    /\ Len(x) = Len(y)
    /\ \A i \in 1..Len(x) : SameLetter(Char(x, i), Char(y, i))

\* C26: for every UUID u produced by UUID.create or UUID.parse,
\* UUID.parse(u.toString()) succeeds and equals u and u.equals(u.toString())
\* is true; and u.equals(x) is true iff the string of x (x itself when x is
\* a string) equals u's value ignoring letter case.
C26_EqualsContract ==
    /\ \A u \in UuidRefs \ {EMPTY} :
           LET str == UUID_toString(uuids, u).val.s
               parsed == UUID_parse(uuids, str)
           IN  /\ parsed.kind = "return"
               /\ UUID_equals(parsed.heap, u, UuidArg(parsed.ref)).val = Bool(TRUE)
               /\ UUID_equals(uuids, u, Str(str)).val = Bool(TRUE)
    /\ ures.op = "equals" =>
           LET x == IF ures.argRef # 0 THEN uuids[ures.argRef] ELSE ures.argStr
           IN  /\ ures.kind = "return"
               /\ ures.val = Bool(EqualIgnoringCase(uuids[ures.recv], x))

C26_Witness_EqualsOtherCase ==
    /\ ures.op = "equals"
    /\ ures.recv # EMPTY
    /\ ures.argRef = 0
    /\ ures.argStr # uuids[ures.recv]
    /\ ures.val = Bool(TRUE)

\* C27: every UUID instance reachable through the public interface
\* (UUID.create, UUID.parse and the constant UUID.EMPTY) holds a string the
\* validator of UUID.parse and assertUUIDIsValid accepts.
C27_ValidInstances ==
    ures.op \in {"create", "parse", "EMPTY"} /\ ures.kind = "return" =>
        /\ V4Validate(uuids[ures.ref])
        /\ assertUUIDIsValid(uuids, UuidArg(ures.ref)).kind = "return"
        /\ UUID_parse(uuids, UUID_toString(uuids, ures.ref).val.s).kind = "return"

-----------------------------------------------------------------------------
\* Properties of the exception hierarchy

\* C23: every instance of DomainException, IllegalStateException,
\* NotFoundException or IllegalArgumentException is recognised (instanceof)
\* as an Exception and as its own kind and as none of the other three; the
\* kind is decided by the type, never by the message text.
C23_Kinds ==
    exc.type \in Kinds =>
        /\ InstanceOf(exc, "Exception")
        /\ InstanceOf(exc, "Error")
        /\ \A k \in Kinds : InstanceOf(exc, k) <=> k = exc.type

C23_Witness_MessageNamesOtherKind ==
    /\ exc.type = "DomainException"
    /\ exc.message = "NotFoundException"
    /\ ~InstanceOf(exc, "NotFoundException")

\* C24: every exception instance of the taxonomy, constructed directly from
\* a concrete kind or raised by a Guard check or by UUID.parse, carries a
\* non-empty message.
C24_NonEmptyMessage == InstanceOf(exc, "Exception") => exc.message # ""

-----------------------------------------------------------------------------
\* Properties of chained validations

\* The condition of a check holds of the value v.
ConditionHolds(c, v) ==
    CASE c.op = "againstNullOrUndefined" -> v \notin {Null, Undefined}
      [] c.op = "againstWhitespace" -> v.t = "string" /\ HasNonWhitespace(v.s)
      [] c.op = "againstEmpty" ->
             /\ v.t \in {"string", "array", "lengthObject", "function"}
             /\ (IF v.t = "string" THEN Len(v.s) ELSE v.n) # 0
      [] c.op = "againstNegative" -> v.t = "number" /\ v.n >= 0
      [] c.op = "againstZero" -> v.t = "number" /\ v.n # 0
      [] c.op = "isInRange" ->
             /\ v.t = "number"
             /\ c.argMin.t = "number"
             /\ c.argMax.t = "number"
             /\ c.argMin.n <= v.n
             /\ v.n <= c.argMax.n
      [] c.op = "matches" -> v.t = "string" /\ MatchesPattern(c.argStr, v.s)
      [] OTHER -> TypeOf(v) = c.argStr

\* C28: in a chain of checks called in order on one guard, every check
\* evaluated whose condition holds returns the guard; the first check whose
\* condition fails raises, the exception is the one that check raises on
\* the guard, and no check after it is evaluated.
C28_Chain ==
    \A i \in 1..Len(chain.calls) :
        LET this == chain.calls[i]
            v == chain.guards[1].value
        IN  /\ this.recv = 1
            /\ IF ConditionHolds(this.call, v)
               THEN this.kind = "return" /\ this.ref = 1
               ELSE /\ this.kind = "throw"
                    /\ this.err = Invoke(chain.guards, 1, this.call, [r \in Regexes |-> 0]).err
                    /\ i = Len(chain.calls)

-----------------------------------------------------------------------------
\* The version-update script

\* str.split("/").pop()
LastSegment(str) ==
    LET slashes == {i \in 1..Len(str) : Char(str, i) = "/"}
    IN  IF slashes = {} THEN str
        ELSE SubSeq(str, (CHOOSE i \in slashes : \A j \in slashes : j <= i) + 1, Len(str))

\* str is one or more digits
IsDigits(str) == Len(str) > 0 /\ \A i \in 1..Len(str) : IsDigit(Char(str, i))

\* str.replace(/^v/, "")
StripV(str) ==
    IF Len(str) > 0 /\ Char(str, 1) = "v" THEN SubSeq(str, 2, Len(str)) ELSE str

\* RegExp(/^v?\d+\.\d+\.\d+$/).exec(version) finds a match
IsVersion(version) ==
    LET body == StripV(version)
        dots == {i \in 1..Len(body) : Char(body, i) = "."}
    IN  /\ Cardinality(dots) = 2
        /\ LET d1 == CHOOSE i \in dots : \A j \in dots : i <= j
               d2 == CHOOSE i \in dots : \A j \in dots : j <= i
           IN  /\ IsDigits(SubSeq(body, 1, d1 - 1))
               /\ IsDigits(SubSeq(body, d1 + 1, d2 - 1))
               /\ IsDigits(SubSeq(body, d2 + 1, Len(body)))

VersionKey == "\"version\":"

\* The match of /"version":\s*"(.*)"/ in text: the leftmost "version":, then
\* whitespace, a quote, and as many characters other than line terminators
\* as leave a closing quote.
VersionMatch(text) ==
    LET Opening(i) ==
            CHOOSE q \in (i + Len(VersionKey))..(Len(text) + 1) :
                /\ q > Len(text) \/ Char(text, q) \notin WhiteSpace
                /\ \A k \in (i + Len(VersionKey))..(q - 1) : Char(text, k) \in WhiteSpace
        Closings(i) ==
            {j \in (Opening(i) + 1)..Len(text) :
                /\ Char(text, j) = "\""
                /\ \A k \in (Opening(i) + 1)..j : Char(text, k) \notin {"\n", "\r"}}
        starts ==
            {i \in 1..(Len(text) - Len(VersionKey) + 1) :
                /\ SubSeq(text, i, i + Len(VersionKey) - 1) = VersionKey
                /\ Opening(i) <= Len(text)
                /\ Char(text, Opening(i)) = "\""
                /\ Closings(i) # {}}
    IN  IF starts = {} THEN [found |-> FALSE, from |-> 0, to |-> 0, group |-> ""]
        ELSE LET i == CHOOSE a \in starts : \A b \in starts : a <= b
                 j == CHOOSE a \in Closings(i) : \A b \in Closings(i) : b <= a
             IN  [found |-> TRUE, from |-> i, to |-> j,
                  group |-> SubSeq(text, Opening(i) + 1, j - 1)]

\* An outcome of a function of the script.
Returned(v) == [kind |-> "return", val |-> v, err |-> NoError]

Thrown(message) == [kind |-> "throw", val |-> "", err |-> MkError("Error", message)]

\* getNewVersionFromGithub(), given what fetch answers
getNewVersionFromGithub(response) ==
    IF response.failed THEN Thrown("error sending request")
    ELSE IF ~response.ok
    THEN Thrown("Failed to fetch latest release: " \o response.statusText)
    ELSE LET version == LastSegment(response.url)
         IN  IF ~IsVersion(version) THEN Thrown("Invalid version: " \o version)
             ELSE Returned(StripV(version))

\* A variant of getOldVersionFromDenoJson that returns the empty string when
\* deno.json has no version.
getOldVersionFromDenoJson_emptyDefault(file) ==
    IF ~file.exists THEN Thrown("No such file or directory")
    ELSE Returned(VersionMatch(file.text).group)

\* getOldVersionFromDenoJson(), given deno.json
getOldVersionFromDenoJson(file) ==
    IF ~file.exists THEN Thrown("No such file or directory")
    ELSE LET version == VersionMatch(file.text).group
         IN  IF version = "" THEN Thrown("Version not found in deno.json")
             ELSE Returned(version)

\* denoFile.replace(/"version":\s*".*"/, `"version": "${version}"`)
ReplaceVersion(text, version) ==
    LET m == VersionMatch(text)
    IN  IF ~m.found THEN text
        ELSE SubSeq(text, 1, m.from - 1) \o "\"version\": \"" \o version \o "\""
                 \o SubSeq(text, m.to + 1, Len(text))

-----------------------------------------------------------------------------
\* The state machine of one run of the script: main() awaits its four
\* functions in turn, and an exception in any of them ends the run in the
\* catch block.

\* What fetch(GITHUB_API_URL) may answer.
Responses ==
    {[failed |-> TRUE, ok |-> FALSE, statusText |-> "", url |-> ""],
     [failed |-> FALSE, ok |-> FALSE, statusText |-> "Not Found", url |-> "releases/latest"],
     [failed |-> FALSE, ok |-> TRUE, statusText |-> "OK", url |-> "releases/tag/v1.2.3"],
     [failed |-> FALSE, ok |-> TRUE, statusText |-> "OK", url |-> "releases/tag/1.10.0"],
     [failed |-> FALSE, ok |-> TRUE, statusText |-> "OK", url |-> "releases/tag/v1.2"],
     [failed |-> FALSE, ok |-> TRUE, statusText |-> "OK", url |-> "releases/tag/v1.2.3-rc1"],
     [failed |-> FALSE, ok |-> TRUE, statusText |-> "OK", url |-> "domaincrafters/releases"],
     [failed |-> FALSE, ok |-> TRUE, statusText |-> "OK", url |-> "releases/tag/v1.2.3/"]}

\* What ./deno.json may hold.
DenoFiles ==
    {NoFile,
     [exists |-> TRUE, text |-> "{\"name\": \"std\"}"],
     [exists |-> TRUE, text |-> "{\"version\": \"\"}"],
     [exists |-> TRUE, text |-> "{\"version\": \"1.0.0\"}"],
     [exists |-> TRUE, text |-> "{\n\"version\":\"0.9.0\",\n\"name\": \"std\"\n}"],
     [exists |-> TRUE, text |-> "{\"version\": \"1.0.0\", \"name\": \"std\"}"]}

\* catch (error) { console.error(`Error: ${error.message}`) }
Catch(error) ==
    [script EXCEPT !.pc = "done", !.console = Append(@, "Error: " \o error.message)]

ScriptFrame == UNCHANGED <<optionalVars, guardVars, uuidVars, exc, chain>>

\* main() is called, in an environment
Main ==
    /\ script.pc = "idle"
    /\ \E file \in DenoFiles, env \in BOOLEAN :
           script' = [script EXCEPT !.pc = "getNewVersionFromGithub", !.denoJson = file,
                                    !.original = file, !.GITHUB_OUTPUT = env]
    /\ ScriptFrame

\* const new_version = await getNewVersionFromGithub()
GetNewVersionFromGithub ==
    /\ script.pc = "getNewVersionFromGithub"
    /\ \E response \in Responses :
           LET out == getNewVersionFromGithub(response)
           IN  script' = IF out.kind = "throw"
                         THEN [Catch(out.err) EXCEPT !.response = response]
                         ELSE [script EXCEPT !.pc = "getOldVersionFromDenoJson",
                                             !.response = response,
                                             !.new_version = out.val]
    /\ ScriptFrame

\* const old_version = await getOldVersionFromDenoJson()
GetOldVersionFromDenoJson ==
    /\ script.pc = "getOldVersionFromDenoJson"
    /\ LET out == getOldVersionFromDenoJson(script.denoJson)
       IN  script' = IF out.kind = "throw" THEN Catch(out.err)
                     ELSE [script EXCEPT !.pc = "updateDenoJsonVersion",
                                         !.old_version = out.val]
    /\ ScriptFrame

\* await updateDenoJsonVersion(new_version), whose write may fail, and the
\* test of the two versions after it
UpdateDenoJsonVersion ==
    /\ script.pc = "updateDenoJsonVersion"
    /\ \E written \in BOOLEAN :
           script' =
               IF ~script.denoJson.exists THEN Catch(MkError("Error", "No such file or directory"))
               ELSE IF ~written THEN Catch(MkError("Error", "Permission denied"))
               ELSE LET updated ==
                            [script EXCEPT
                                !.denoJson.text = ReplaceVersion(@, script.new_version),
                                !.writes = @ + 1,
                                !.console = Append(@, "Updated deno.json to version "
                                                          \o script.new_version)]
                    IN  IF script.new_version = "" \/ script.old_version = ""
                        THEN [updated EXCEPT
                                  !.pc = "exit",
                                  !.console = Append(@, "Invalid version: "
                                      \o script.new_version \o " or " \o script.old_version)]
                        ELSE [updated EXCEPT !.pc = "updateGithubOutput_new_version"]
    /\ ScriptFrame

\* updateGithubOutput(key, value), whose write may fail
updateGithubOutput(key, val, next, written) ==
    IF ~script.GITHUB_OUTPUT THEN [script EXCEPT !.pc = next]
    ELSE LET logged == [script EXCEPT
                            !.console = Append(@, "Setting " \o key \o " to " \o val)]
         IN  IF ~written
             THEN [logged EXCEPT !.pc = "done",
                                 !.console = Append(@, "Error: Permission denied")]
             ELSE [logged EXCEPT !.pc = next,
                                 !.output = Append(@, key \o "=" \o val \o "\n")]

\* await updateGithubOutput("new_version", new_version)
UpdateGithubOutputNewVersion ==
    /\ script.pc = "updateGithubOutput_new_version"
    /\ \E written \in BOOLEAN :
           script' = updateGithubOutput("new_version", script.new_version,
                                        "updateGithubOutput_old_version", written)
    /\ ScriptFrame

\* await updateGithubOutput("old_version", old_version)
UpdateGithubOutputOldVersion ==
    /\ script.pc = "updateGithubOutput_old_version"
    /\ \E written \in BOOLEAN :
           script' = updateGithubOutput("old_version", script.old_version, "done", written)
    /\ ScriptFrame

ScriptNext ==
    \/ Main
    \/ GetNewVersionFromGithub
    \/ GetOldVersionFromDenoJson
    \/ UpdateDenoJsonVersion
    \/ UpdateGithubOutputNewVersion
    \/ UpdateGithubOutputOldVersion

ScriptSpec == Init /\ [][ScriptNext]_vars

-----------------------------------------------------------------------------
\* Properties of the version-update script

\* Fetching the latest release, or validating its version, failed.
FetchFailed ==
    /\ script.response # NoResponse
    /\ \/ script.response.failed
       \/ ~script.response.ok
       \/ ~IsVersion(LastSegment(script.response.url))

\* Reading the old version from deno.json failed.
ReadFailed ==
    /\ script.pc \notin {"idle", "getNewVersionFromGithub", "getOldVersionFromDenoJson"}
    /\ \/ ~script.original.exists
       \/ VersionMatch(script.original.text).group = ""

\* C30: deno.json is rewritten only after the latest release version was
\* fetched and matched v?N.N.N and a non-empty old version was read from
\* deno.json; the outputs new_version and old_version are appended only
\* after that rewrite, in that order; and if fetching, validating or reading
\* fails, deno.json and the GITHUB_OUTPUT file are left unchanged and the
\* error is only logged.
C30_Script ==
    /\ script.writes > 0 =>
           /\ ~script.response.failed
           /\ script.response.ok
           /\ IsVersion(LastSegment(script.response.url))
           /\ script.new_version = StripV(LastSegment(script.response.url))
           /\ script.old_version # ""
           /\ script.old_version = VersionMatch(script.original.text).group
    /\ script.writes = 0 => script.denoJson = script.original
    /\ script.output # <<>> =>
           /\ script.writes > 0
           /\ script.GITHUB_OUTPUT
           /\ \E n \in 1..2 :
                  script.output =
                      SubSeq(<<"new_version=" \o script.new_version \o "\n",
                               "old_version=" \o script.old_version \o "\n">>, 1, n)
    /\ FetchFailed \/ ReadFailed =>
           /\ script.pc = "done"
           /\ script.denoJson = script.original
           /\ script.writes = 0
           /\ script.output = <<>>
           /\ Len(script.console) = 1
           /\ StartsWith(script.console[1], "Error: ")

C30_Witness_BothOutputsAppended ==
    /\ script.pc = "done"
    /\ script.writes = 1
    /\ script.denoJson # script.original
    /\ Len(script.output) = 2

====
